---- MODULE Spec2Model ----
(***************************************************************************)
(* Model of main.py, the "List Your Problems" API: a FastAPI service that  *)
(* stores moderated problem entries in the SQLite table `problems`.        *)
(*                                                                         *)
(* Text values (str) are sequences of one-character strings, so that       *)
(* str.strip and str.upper are computed character by character.            *)
(* A uuid is the ordinal of the uuid.uuid4() call that produced it.        *)
(***************************************************************************)
EXTENDS Integers, Sequences, FiniteSets, TLC

VARIABLES
    pc,          \* the server process: "boot" | "init_db" | "serving"
    fileExists,  \* os.path.exists(DB_NAME)
    tableExists, \* the problems table is in the database file
    table,       \* committed rows of problems, in rowid order
    seq,         \* sqlite_sequence of problems (AUTOINCREMENT)
    now,         \* the store's CURRENT_TIMESTAMP, in seconds
    issued,      \* number of uuid.uuid4() calls made so far
    inserted,    \* the uuid of every row ever inserted, in insertion order
    last,        \* the request handled last: its inputs, the table before it, its response
    reqs,        \* concurrent handling: each request's position and locals
    log          \* concurrent handling: the statements committed, in commit order

vars == <<pc, fileExists, tableExists, table, seq, now, issued, inserted, last, reqs, log>>

-----------------------------------------------------------------------------
(* Bounds of the model *)

MaxIssued == 2
MaxTime == 1
NReq == 3

-----------------------------------------------------------------------------
(* Text *)

Whitespace == {" ", "\t"}

RECURSIVE LStrip(_)
LStrip(s) ==
    IF s /= <<>> /\ Head(s) \in Whitespace THEN LStrip(Tail(s)) ELSE s

RECURSIVE RStrip(_)
RStrip(s) ==
    IF s /= <<>> /\ s[Len(s)] \in Whitespace
    THEN RStrip(SubSeq(s, 1, Len(s) - 1))
    ELSE s

\* str.strip()
Strip(s) == RStrip(LStrip(s))

UpChar(c) ==
    CASE c = "y" -> "Y"
      [] c = "e" -> "E"
      [] c = "s" -> "S"
      [] c = "n" -> "N"
      [] c = "o" -> "O"
      [] OTHER -> c

\* str.upper()
Upper(s) == [i \in DOMAIN s |-> UpChar(s[i])]

YES == <<"Y", "E", "S">>

\* The HTTP 400 test of add_entry: `not entry.problem.strip()`
\* (IsBlank_NoStrip: the variant `not entry.problem`)
IsBlank_NoStrip(problem) == problem = <<>>
IsBlank(problem) == Strip(problem) = <<>>

\* The accept test of add_entry: `mistral_response.upper() == "YES"`
\* (variants: `.upper().startswith("YES")`, and a test that is always true)
IsAccept_Prefix(text) == Len(text) >= 3 /\ Upper(SubSeq(text, 1, 3)) = YES
IsAccept_Always(text) == TRUE
IsAccept(text) == Upper(text) = YES

-----------------------------------------------------------------------------
(* Requests and responses *)

Omitted == "<omitted>"

\* Request bodies of POST /add_entry
Problems == { <<>>, <<" ">>, <<"a">>, <<" ", "a">> }
Names == { Omitted, "Alice" }
Emails == { Omitted }
Bodies == [problem : Problems, name : Names, email : Emails]

\* class ProblemEntry(BaseModel): the defaults of the omitted fields
ProblemEntry(body) ==
    [problem |-> body.problem,
     name    |-> IF body.name = Omitted THEN "Anonymous" ELSE body.name,
     email   |-> IF body.email = Omitted THEN "" ELSE body.email]

NoEntry == [problem |-> <<>>, name |-> "", email |-> ""]

\* What get_mistral_response can do: return a str content, return a content
\* that is no str (None), or raise.
Contents ==
    { YES, <<"y", "e", "s">>, <<"N", "O">>, <<" ", "Y", "E", "S">>,
      <<"Y", "E", "S", ".">>, <<>> }
GateOutcomes ==
    { [kind |-> "text", text |-> t] : t \in Contents }
    \cup { [kind |-> "none", text |-> <<>>], [kind |-> "raise", text |-> <<>>] }
NoGate == [kind |-> "unused", text |-> <<>>]

\* Where a store statement can fail (I/O error, locked database)
FailPoints == { "none", "execute", "commit" }

FlaggedMessage == "Entry not added because it was flagged as potentially offensive"

-----------------------------------------------------------------------------
(* The store *)

\* uuid.uuid4(): a random 122-bit token, taken to be one no earlier call
\* returned (uuid4_Reuse: the variant that returns the previous token again)
uuid4_Reuse == IF issued = 0 THEN 1 ELSE issued
uuid4 == issued + 1

\* Tokens a client can send to DELETE /delete_entry/{uuid}; 0 was never issued
Tokens == 0 .. MaxIssued

\* INSERT INTO problems (problem, name, email, uuid) VALUES (?, ?, ?, ?);
\* id is AUTOINCREMENT and created_at is DEFAULT CURRENT_TIMESTAMP
\* (InsertRow_DropName: the variant that leaves name to its column default)
InsertRow_DropName(t, s, entry, u, ts) ==
    Append(t, [id |-> s + 1, problem |-> entry.problem, name |-> "Anonymous",
               email |-> entry.email, created_at |-> ts, uuid |-> u])
InsertRow(t, s, entry, u, ts) ==
    Append(t, [id |-> s + 1, problem |-> entry.problem, name |-> entry.name,
               email |-> entry.email, created_at |-> ts, uuid |-> u])

\* DELETE FROM problems WHERE uuid = ?
\* (DeleteRows_Newest: the variant that deletes the newest row instead)
DeleteRows_Newest(t, u) ==
    IF t = <<>> THEN t ELSE SubSeq(t, 1, Len(t) - 1)
DeleteRows(t, u) ==
    LET keep(r) == r.uuid /= u IN SelectSeq(t, keep)

\* conn.rollback(): the connection's uncommitted writes are dropped
\* (Rollback_Keep: the variant in which they stay)
Rollback_Keep(pending, committed) == pending
Rollback(pending, committed) == committed

\* The columns get_all_entries selects
Projected(r) ==
    [id |-> r.id, problem |-> r.problem, name |-> r.name, created_at |-> r.created_at]

\* SELECT ... ORDER BY created_at DESC: every order of the rows in which
\* created_at never increases; rows of equal created_at come in any order.
Orderings(t) ==
    LET n == Len(t)
        perms == { p \in [1 .. n -> 1 .. n] : \A i, j \in 1 .. n : i /= j => p[i] /= p[j] }
        sorted(p) == \A i \in 1 .. n - 1 : t[p[i]].created_at >= t[p[i + 1]].created_at
    IN { [i \in 1 .. n |-> Projected(t[p[i]])] : p \in { q \in perms : sorted(q) } }

-----------------------------------------------------------------------------
(* State after the module is loaded up to the call of init_db (line 78) *)

NoLast ==
    [op |-> "none", body |-> NoEntry, token |-> 0, gate |-> NoGate, fail |-> "none",
     pre |-> <<>>, code |-> 0, status |-> "", message |-> "",
     gateCalled |-> FALSE, storeUsed |-> FALSE, uuid |-> 0, result |-> <<>>]

IdleReq ==
    [pc |-> "idle", kind |-> "", body |-> NoEntry, token |-> 0, uuid |-> 0,
     gate |-> NoGate, pending |-> <<>>, outcome |-> ""]

Init ==
    /\ pc = "boot"
    /\ fileExists = FALSE
    /\ tableExists = FALSE
    /\ table = <<>>
    /\ seq = 0
    /\ now = 0
    /\ issued = 0
    /\ inserted = <<>>
    /\ last = NoLast
    /\ reqs = [r \in 1 .. NReq |-> IdleReq]
    /\ log = <<>>

-----------------------------------------------------------------------------
(* Process start *)

\* init_db, lines 60-61: nothing is done when the file exists; otherwise
\* sqlite3.connect creates the (empty) database file.
InitDbConnect ==
    /\ pc = "boot"
    /\ IF ~fileExists
       THEN /\ fileExists' = TRUE
            /\ pc' = "init_db"
       ELSE /\ pc' = "serving"
            /\ UNCHANGED fileExists
    /\ UNCHANGED <<tableExists, table, seq, now, issued, inserted, last, reqs, log>>

\* init_db, lines 62-75: CREATE TABLE IF NOT EXISTS problems, commit, close
InitDbCreate ==
    /\ pc = "init_db"
    /\ tableExists' = TRUE
    /\ pc' = "serving"
    /\ UNCHANGED <<fileExists, table, seq, now, issued, inserted, last, reqs, log>>

\* The process ends (at any point after it started) and main.py is loaded again.
Restart ==
    /\ pc \in {"init_db", "serving"}
    /\ pc' = "boot"
    /\ last' = NoLast
    /\ UNCHANGED <<fileExists, tableExists, table, seq, now, issued, inserted, reqs, log>>

\* created_at TIMESTAMP DEFAULT CURRENT_TIMESTAMP: the clock of the store
Tick ==
    /\ now < MaxTime
    /\ now' = now + 1
    /\ UNCHANGED <<pc, fileExists, tableExists, table, seq, issued, inserted, last, reqs, log>>

-----------------------------------------------------------------------------
(* Request handlers, each run to completion *)

\* POST /add_entry
add_entry(body) ==
    LET entry == ProblemEntry(body)
        Response(gate, fail, code, status, message, store) ==
            [NoLast EXCEPT !.op = "add_entry", !.body = body, !.pre = table,
                           !.gate = gate, !.fail = fail, !.uuid = uuid4,
                           !.gateCalled = TRUE, !.storeUsed = store,
                           !.code = code, !.status = status, !.message = message]
    IN
    /\ pc = "serving"
    /\ IF IsBlank(entry.problem)
       THEN \* line 97: HTTPException(400)
            /\ last' = [NoLast EXCEPT !.op = "add_entry", !.body = body, !.pre = table,
                                      !.code = 400]
            /\ UNCHANGED <<fileExists, table, seq, issued, inserted>>
       ELSE /\ issued < MaxIssued
            /\ issued' = issued + 1          \* line 100
            /\ fileExists' = TRUE            \* line 102
            /\ \E gate \in GateOutcomes :    \* line 107
                 IF gate.kind = "text" /\ IsAccept(gate.text)
                 THEN \E fail \in FailPoints :
                        LET executed == tableExists /\ fail /= "execute"
                            pending == IF executed
                                       THEN InsertRow(table, seq, entry, uuid4, now)
                                       ELSE table
                        IN IF executed /\ fail = "none"
                           THEN \* lines 110-115
                                /\ table' = pending
                                /\ seq' = seq + 1
                                /\ inserted' = Append(inserted, uuid4)
                                /\ last' = Response(gate, fail, 200, "success",
                                                    "Entry added successfully", TRUE)
                           ELSE \* lines 119-122: rollback, HTTPException(500)
                                /\ table' = Rollback(pending, table)
                                /\ UNCHANGED <<seq, inserted>>
                                /\ last' = Response(gate, fail, 500, "", "", TRUE)
                 ELSE IF gate.kind = "text"
                      THEN \* lines 116-118
                           /\ UNCHANGED <<table, seq, inserted>>
                           /\ last' = Response(gate, "none", 200, "error",
                                               FlaggedMessage, FALSE)
                      ELSE \* the call raised, or .upper() raised on a content
                           \* that is no str: lines 119-122
                           /\ table' = Rollback(table, table)
                           /\ UNCHANGED <<seq, inserted>>
                           /\ last' = Response(gate, "none", 500, "", "", FALSE)
    /\ UNCHANGED <<pc, tableExists, now, reqs, log>>

\* GET /get_all_entries
get_all_entries ==
    /\ pc = "serving"
    /\ IF tableExists
       THEN \E res \in Orderings(table) :
              last' = [NoLast EXCEPT !.op = "get_all_entries", !.pre = table,
                                     !.storeUsed = TRUE, !.code = 200, !.result = res]
       ELSE last' = [NoLast EXCEPT !.op = "get_all_entries", !.pre = table,
                                   !.storeUsed = TRUE, !.code = 500]
    /\ fileExists' = TRUE
    /\ UNCHANGED <<pc, tableExists, table, seq, now, issued, inserted, reqs, log>>

\* DELETE /delete_entry/{uuid}
delete_entry(token, fail) ==
    /\ pc = "serving"
    /\ fileExists' = TRUE
    /\ IF tableExists /\ fail = "none"
       THEN /\ table' = DeleteRows(table, token)
            /\ last' = [NoLast EXCEPT !.op = "delete_entry", !.token = token,
                                      !.fail = fail, !.pre = table, !.storeUsed = TRUE,
                                      !.code = 200, !.status = "success",
                                      !.message = "Entry deleted successfully"]
       ELSE /\ UNCHANGED table
            /\ last' = [NoLast EXCEPT !.op = "delete_entry", !.token = token,
                                      !.fail = fail, !.pre = table, !.storeUsed = TRUE,
                                      !.code = 500]
    /\ UNCHANGED <<pc, tableExists, seq, now, issued, inserted, reqs, log>>

Next ==
    \/ InitDbConnect
    \/ InitDbCreate
    \/ Restart
    \/ Tick
    \/ \E body \in Bodies : add_entry(body)
    \/ get_all_entries
    \/ \E token \in Tokens, fail \in FailPoints : delete_entry(token, fail)

Spec == Init /\ [][Next]_vars

-----------------------------------------------------------------------------
(* Requests handled concurrently (several server processes on one database  *)
(* file): a request is a sequence of steps, and steps of different requests *)
(* interleave.  A connection that has executed a write statement holds the  *)
(* database's write lock until it commits or closes; what it wrote is       *)
(* private to it until the commit.                                          *)

ReqIds == 1 .. NReq

\* Requests are numbered in the order in which their handling starts.
Arrives(r) == reqs[r].pc = "idle" /\ \A q \in ReqIds : q < r => reqs[q].pc /= "idle"

\* The request bodies and gate outcomes of the concurrent runs
BodiesConc == { b \in Bodies : b.problem \in { <<" ">>, <<"a">> } /\ b.name = "Alice" }
GateOutcomesConc ==
    { g \in GateOutcomes : g.kind = "raise" \/ (g.kind = "text" /\ g.text \in { YES, <<"N", "O">> }) }

\* State after a first start in an empty directory: init_db created the table.
InitConc ==
    /\ pc = "serving"
    /\ fileExists = TRUE
    /\ tableExists = TRUE
    /\ table = <<>>
    /\ seq = 0
    /\ now = 0
    /\ issued = 0
    /\ inserted = <<>>
    /\ last = NoLast
    /\ reqs = [r \in ReqIds |-> IdleReq]
    /\ log = <<>>

WriteLocked == \E q \in ReqIds : reqs[q].pc \in {"add_commit", "delete_commit"}

Finish(r, outcome) ==
    reqs' = [reqs EXCEPT ![r].pc = "done", ![r].outcome = outcome, ![r].pending = <<>>]

\* add_entry, lines 96-103
AddValidate(r, body) ==
    /\ Arrives(r)
    /\ IF IsBlank(ProblemEntry(body).problem)
       THEN /\ reqs' = [reqs EXCEPT ![r].pc = "done", ![r].kind = "add",
                                    ![r].body = body, ![r].outcome = "400"]
            /\ UNCHANGED issued
       ELSE /\ issued < MaxIssued
            /\ issued' = issued + 1
            /\ reqs' = [reqs EXCEPT ![r].pc = "classify", ![r].kind = "add",
                                    ![r].body = body, ![r].uuid = uuid4]
    /\ UNCHANGED <<pc, fileExists, tableExists, table, seq, now, inserted, last, log>>

\* add_entry, lines 105-109 and 116-124
AddClassify(r, gate) ==
    /\ reqs[r].pc = "classify"
    /\ IF gate.kind = "text"
       THEN IF IsAccept(gate.text)
            THEN reqs' = [reqs EXCEPT ![r].pc = "add_execute", ![r].gate = gate]
            ELSE reqs' = [reqs EXCEPT ![r].pc = "done", ![r].gate = gate,
                                      ![r].outcome = "rejected"]
       ELSE reqs' = [reqs EXCEPT ![r].pc = "done", ![r].gate = gate, ![r].outcome = "500"]
    /\ UNCHANGED <<pc, fileExists, tableExists, table, seq, now, issued, inserted, last, log>>

\* add_entry, lines 110-113: cursor.execute(INSERT ...)
AddExecute(r, fail) ==
    /\ reqs[r].pc = "add_execute"
    /\ IF tableExists /\ ~fail /\ ~WriteLocked
       THEN reqs' = [reqs EXCEPT
                ![r].pc = "add_commit",
                ![r].pending = InsertRow(table, seq, ProblemEntry(reqs[r].body),
                                         reqs[r].uuid, now)]
       ELSE Finish(r, "500")
    /\ UNCHANGED <<pc, fileExists, tableExists, table, seq, now, issued, inserted, last, log>>

\* add_entry, lines 114-115, or 119-124 when the commit raises
AddCommit(r, fail) ==
    /\ reqs[r].pc = "add_commit"
    /\ IF ~fail
       THEN /\ table' = reqs[r].pending
            /\ seq' = seq + 1
            /\ inserted' = Append(inserted, reqs[r].uuid)
            /\ log' = Append(log, [req |-> r, at |-> reqs[r].pending[Len(reqs[r].pending)].created_at])
            /\ Finish(r, "success")
       ELSE /\ Finish(r, "500")
            /\ UNCHANGED <<table, seq, inserted, log>>
    /\ UNCHANGED <<pc, fileExists, tableExists, now, issued, last>>

\* delete_entry, lines 160-163: cursor.execute(DELETE ...)
DeleteExecute(r, token, fail) ==
    /\ Arrives(r)
    /\ IF tableExists /\ ~fail /\ ~WriteLocked
       THEN reqs' = [reqs EXCEPT ![r].pc = "delete_commit", ![r].kind = "delete",
                                 ![r].token = token,
                                 ![r].pending = DeleteRows(table, token)]
       ELSE reqs' = [reqs EXCEPT ![r].pc = "done", ![r].kind = "delete",
                                 ![r].token = token, ![r].outcome = "500"]
    /\ UNCHANGED <<pc, fileExists, tableExists, table, seq, now, issued, inserted, last, log>>

\* delete_entry, lines 164-169
DeleteCommit(r, fail) ==
    /\ reqs[r].pc = "delete_commit"
    /\ IF ~fail
       THEN /\ table' = reqs[r].pending
            /\ log' = Append(log, [req |-> r, at |-> now])
            /\ Finish(r, "success")
       ELSE /\ Finish(r, "500")
            /\ UNCHANGED <<table, log>>
    /\ UNCHANGED <<pc, fileExists, tableExists, seq, now, issued, inserted, last>>

NextConc ==
    \/ \E r \in ReqIds, body \in BodiesConc : AddValidate(r, body)
    \/ \E r \in ReqIds, gate \in GateOutcomesConc : AddClassify(r, gate)
    \/ \E r \in ReqIds, fail \in BOOLEAN : AddExecute(r, fail)
    \/ \E r \in ReqIds, fail \in BOOLEAN : AddCommit(r, fail)
    \/ \E r \in ReqIds, token \in Tokens, fail \in BOOLEAN : DeleteExecute(r, token, fail)
    \/ \E r \in ReqIds, fail \in BOOLEAN : DeleteCommit(r, fail)
    \/ get_all_entries

SpecConc == InitConc /\ [][NextConc]_vars

\* The table and sqlite_sequence that result from running the logged
\* statements one after the other, in the order of the log.
RECURSIVE Replay(_)
Replay(l) ==
    IF l = <<>>
    THEN [table |-> <<>>, seq |-> 0]
    ELSE LET before == Replay(SubSeq(l, 1, Len(l) - 1))
             e == l[Len(l)]
             q == reqs[e.req]
         IN IF q.kind = "add"
            THEN [table |-> InsertRow(before.table, before.seq, ProblemEntry(q.body),
                                      q.uuid, e.at),
                  seq   |-> before.seq + 1]
            ELSE [table |-> DeleteRows(before.table, q.token), seq |-> before.seq]

-----------------------------------------------------------------------------
(* Properties of the request handlers run one at a time (Spec) *)

AllWhitespace(text) == \A i \in DOMAIN text : text[i] \in Whitespace

Uuids(t) == { t[i].uuid : i \in DOMAIN t }

\* The request handled last was an add_entry with a problem that is not blank
ValidAdd == last.op = "add_entry" /\ ~AllWhitespace(last.body.problem)

\* ... whose moderation response was ACCEPT / REJECT
Accepted == ValidAdd /\ last.gate.kind = "text" /\ Upper(last.gate.text) = YES
Rejected == ValidAdd /\ last.gate.kind = "text" /\ Upper(last.gate.text) /= YES

\* ... and the INSERT statement and its commit ran without a storage error
InsertRan == tableExists /\ last.fail = "none"

\* C1: an add_entry with a non-blank problem and an ACCEPT response (whose
\* insert meets no storage error) is answered with success; the table then
\* holds exactly one row more, the rows stored before are unchanged, the new
\* row carries the submitted problem and name and appears in every result
\* get_all_entries can return, and its uuid differs from the uuid of every
\* entry inserted before.
C1_AcceptedAddStoresOneRow ==
    (Accepted /\ InsertRan) =>
        LET new == table[Len(table)] IN
        /\ last.code = 200 /\ last.status = "success"
        /\ Len(table) = Len(last.pre) + 1
        /\ SubSeq(table, 1, Len(last.pre)) = last.pre
        /\ new.problem = last.body.problem
        /\ new.name = (IF last.body.name = Omitted THEN "Anonymous" ELSE last.body.name)
        /\ \A res \in Orderings(table) :
             \E i \in DOMAIN res :
                /\ res[i].id = new.id
                /\ res[i].problem = last.body.problem
                /\ res[i].name = new.name
        /\ new.uuid = last.uuid
        /\ \A i \in 1 .. Len(inserted) - 1 : inserted[i] /= new.uuid
        /\ new.uuid \notin Uuids(last.pre)

C1_Witness ==
    /\ Accepted /\ InsertRan
    /\ last.status = "success"
    /\ last.body.name = "Alice"
    /\ last.pre /= <<>>
    /\ Len(table) = 2

\* C2: an add_entry whose problem is empty or only whitespace is answered
\* with HTTP 400; the moderation gate is not called, no store statement is
\* run, and the table is the same as before.
C2_BlankProblemIs400 ==
    (last.op = "add_entry" /\ AllWhitespace(last.body.problem)) =>
        /\ last.code = 400
        /\ ~last.gateCalled
        /\ ~last.storeUsed
        /\ table = last.pre
        /\ Orderings(table) = Orderings(last.pre)

C2_Witness ==
    /\ last.op = "add_entry"
    /\ last.body.problem = <<" ">>
    /\ last.code = 400
    /\ table /= <<>>

\* C3: an add_entry with a non-blank problem that the gate answers with a
\* text other than YES gets the normal response {status: "error", message:
\* "Entry not added because it was flagged as potentially offensive"},
\* neither a 400 nor a 500, and the table is the same as before.
C3_RejectedAddStoresNothing ==
    Rejected =>
        /\ last.code = 200
        /\ last.status = "error"
        /\ last.message = FlaggedMessage
        /\ ~last.storeUsed
        /\ table = last.pre

C3_Witness ==
    /\ Rejected
    /\ last.gate.text = <<"Y", "E", "S", ".">>
    /\ last.status = "error"
    /\ table /= <<>>

\* C4: the gate is fail-closed: of the values get_mistral_response can return
\* without raising, exactly those whose upper-cased text is YES lead to the
\* insert; every other one, a content that is no text included, gets the
\* rejection response and leaves the table as it was.
C4_FailClosedReject ==
    (ValidAdd /\ last.gate.kind \in {"text", "none"}) =>
        /\ last.storeUsed <=> (last.gate.kind = "text" /\ Upper(last.gate.text) = YES)
        /\ ~(last.gate.kind = "text" /\ Upper(last.gate.text) = YES) =>
              /\ last.code = 200
              /\ last.status = "error"
              /\ last.message = FlaggedMessage
              /\ table = last.pre

\* C5: when the gate call raises, or the insert of an accepted entry fails,
\* add_entry is answered with HTTP 500 and never with success, and the table
\* and sqlite_sequence are the same as before: what the failed statement
\* wrote is rolled back.
C5_FailureIs500AndStoresNothing ==
    (ValidAdd /\ (last.gate.kind = "raise" \/ (Accepted /\ ~InsertRan))) =>
        /\ last.code = 500
        /\ last.status /= "success"
        /\ table = last.pre
        /\ Len(inserted) = seq
        /\ \A res \in Orderings(table) : \A i \in DOMAIN res : res[i].id <= seq

C5_Witness ==
    /\ Accepted
    /\ tableExists
    /\ last.fail = "commit"
    /\ last.code = 500
    /\ table /= <<>>

\* C6: a delete_entry whose statement runs without a storage error answers
\* {status: "success"} whether or not a row has the uuid; when no row has it
\* the table is unchanged; and a delete_entry of the same uuid directly after
\* a successful one leaves the table as the first one left it.
C6_State ==
    (last.op = "delete_entry" /\ tableExists /\ last.fail = "none") =>
        /\ last.code = 200
        /\ last.status = "success"
        /\ (last.token \notin Uuids(last.pre)) => table = last.pre

C6_Step ==
    \A u \in Tokens :
        (/\ last.op = "delete_entry" /\ last.code = 200 /\ last.token = u
         /\ \E fail \in FailPoints : delete_entry(u, fail))
        => table' = table

C6_DeleteIdempotent == []C6_State /\ [][C6_Step]_vars

\* a delete of a uuid that was inserted, is gone, while other rows are stored
C6_Witness ==
    /\ last.op = "delete_entry"
    /\ last.code = 200
    /\ \E i \in DOMAIN inserted : inserted[i] = last.token
    /\ last.token \notin Uuids(last.pre)
    /\ last.pre /= <<>>
    /\ table = last.pre

\* C7: no two stored rows share a uuid, so a delete_entry removes no row or
\* one row, the removed row is the one with the given uuid, and the rows
\* with another uuid stay as they were, in their order.
C7_DeleteRemovesAtMostOne ==
    /\ \A i, j \in DOMAIN table : i /= j => table[i].uuid /= table[j].uuid
    /\ (last.op = "delete_entry" /\ last.code = 200) =>
        /\ Len(last.pre) - Len(table) \in {0, 1}
        /\ \A i \in DOMAIN last.pre :
              last.pre[i].uuid /= last.token
                 => \E j \in DOMAIN table : table[j] = last.pre[i]
        /\ \A j \in DOMAIN table :
              \E i \in DOMAIN last.pre :
                 table[j] = last.pre[i] /\ last.pre[i].uuid /= last.token
        /\ \A j, k \in DOMAIN table : j < k => table[j].id < table[k].id

C7_Witness ==
    /\ last.op = "delete_entry"
    /\ last.code = 200
    /\ Len(last.pre) = 2
    /\ Len(table) = 1
    /\ table[1].uuid /= last.token

\* C8: get_all_entries returns the entries newest first: created_at never
\* increases along the result, and of two entries the one inserted later
\* (the one with the larger id) comes first, also when both have the same
\* created_at.
C8_NewestFirst ==
    (last.op = "get_all_entries" /\ last.code = 200) =>
        \A i, j \in DOMAIN last.result :
            i < j =>
                /\ last.result[i].created_at >= last.result[j].created_at
                /\ last.result[i].id > last.result[j].id

\* C9: once init_db has returned (the process is serving), the problems
\* table exists, whatever was on disk when the process started.
C9_InitDbEstablishesTable ==
    pc = "serving" => tableExists

-----------------------------------------------------------------------------
(* Properties of the requests handled concurrently (SpecConc) *)

LogOf(r) == { i \in DOMAIN log : log[i].req = r }

\* A committed delete_entry of r's uuid comes after r's insert in the log
DeletedAfter(r) ==
    \E i \in LogOf(r), j \in DOMAIN log :
        /\ j > i
        /\ reqs[log[j].req].kind = "delete"
        /\ reqs[log[j].req].token = reqs[r].uuid

RowsOf(r) == { j \in DOMAIN table : table[j].uuid = reqs[r].uuid }

\* C10: under every interleaving of the steps of concurrent add_entry and
\* delete_entry requests, the table is the one obtained by running the
\* committed statements one after the other in commit order; a request is in
\* that order exactly once if it was answered with success and not at all
\* otherwise; only submissions the gate accepted are stored, each once, and
\* each stays until a later delete of its uuid; and every result of
\* get_all_entries is a committed table, made of whole rows of committed
\* inserts.
C10_Serializable ==
    /\ table = Replay(log).table
    /\ seq = Replay(log).seq
    /\ \A r \in ReqIds :
          Cardinality(LogOf(r)) = (IF reqs[r].outcome = "success" THEN 1 ELSE 0)
    /\ \A r \in ReqIds :
          reqs[r].kind = "add" =>
             /\ reqs[r].outcome = "success" =>
                   /\ reqs[r].gate.kind = "text"
                   /\ Upper(reqs[r].gate.text) = YES
                   /\ ~AllWhitespace(reqs[r].body.problem)
             /\ Cardinality(RowsOf(r)) =
                   (IF reqs[r].outcome = "success" /\ ~DeletedAfter(r) THEN 1 ELSE 0)
    /\ \A j \in DOMAIN table :
          \E r \in ReqIds :
             /\ reqs[r].kind = "add"
             /\ reqs[r].outcome = "success"
             /\ table[j].uuid = reqs[r].uuid
             /\ table[j].problem = reqs[r].body.problem
             /\ table[j].name = reqs[r].body.name
    /\ (last.op = "get_all_entries") =>
          /\ last.code = 200
          /\ \E k \in 0 .. Len(log) : Replay(SubSeq(log, 1, k)).table = last.pre
          /\ last.result \in Orderings(last.pre)
          /\ \A i \in DOMAIN last.result :
                \E r \in ReqIds :
                   /\ reqs[r].kind = "add"
                   /\ reqs[r].outcome = "success"
                   /\ last.result[i].problem = reqs[r].body.problem
                   /\ last.result[i].name = reqs[r].body.name
                   /\ last.result[i].id \in 1 .. seq

\* Two inserts committed in the reverse of the order in which their requests
\* started, a read between them, then a delete that removed one of the rows.
C10_Witness ==
    /\ \A r \in ReqIds : reqs[r].pc = "done"
    /\ Len(log) >= 3
    /\ log[1].req = 2
    /\ log[2].req = 1
    /\ reqs[log[3].req].kind = "delete"
    /\ Len(table) = 1
    /\ last.op = "get_all_entries"
    /\ Len(last.result) = 1

====
